---------------------------- MODULE Spec2Model ----------------------------
(***************************************************************************)
(* Query builder (src/src/features/orm/query.ts) and MySQL database        *)
(* adapter (src/src/adapters/database/mysql/index.ts) of warp-server.      *)
(*                                                                         *)
(* SQL text is modelled as a sequence of tokens, one per piece of a        *)
(* template literal:                                                       *)
(*   [lit |-> s]                     text written in the template itself   *)
(*   [escapeKey |-> k, useRaw |-> b] the result of client.escapeKey(k, b)  *)
(*   [escape |-> v]                  the result of client.escape(v)        *)
(*   [text |-> x]                    a value interpolated as it is, ${x}   *)
(* A value is a record [type, data, bound]; an array of values is          *)
(* [array |-> <<v1, ...>>]; a query passed as a value is [query |-> q].    *)
(***************************************************************************)
EXTENDS Integers, Sequences, FiniteSets, TLC

(***************************************************************************)
(* Bounds of the model.                                                    *)
(***************************************************************************)
\* number of builder calls made in one behaviour
MaxCalls == 2
\* number of readings the wall clock can show
MaxClock == 2
\* length of the longest array given as a constraint value
MaxValues == 2

(***************************************************************************)
(* utils/constants (imported at index.ts:4 and query.ts:5).                *)
(***************************************************************************)
InternalId == "id"
CreatedAt == "created_at"
UpdatedAt == "updated_at"
DeletedAt == "deleted_at"
DatabaseWrite == "write"
DatabaseRead == "read"
SortSymbol == "-"
DefaultsQuerySkip == 0
DefaultsQueryLimit == 100

\* Error.Code members used by the two files
ForbiddenOperation == "ForbiddenOperation"
InvalidObjectKey == "InvalidObjectKey"
MissingConfiguration == "MissingConfiguration"
\* what a failed enforce`...` raises
ValidationError == "ValidationError"
\* a call that returned normally
NoError == "ok"

(***************************************************************************)
(* Values.                                                                 *)
(***************************************************************************)
Str(s) == [type |-> "string", data |-> s, bound |-> FALSE]
Bool(b) == [type |-> "boolean", data |-> IF b THEN "true" ELSE "false", bound |-> FALSE]
\* the wrappers of features/orm/specials; bound tells whether escapeKey and
\* escape have been set on the wrapper
Increment(by) == [type |-> "Increment", data |-> by, bound |-> FALSE]
JsonAction(action) == [type |-> "JsonAction", data |-> action, bound |-> FALSE]
IsWrapper(v) == "type" \in DOMAIN v /\ v.type \in {"Increment", "JsonAction"}
Arr(items) == [array |-> items]
QueryRef(q) == [query |-> q]

IsScalar(v) == "type" \in DOMAIN v
IsArray(v) == "array" \in DOMAIN v
IsQuery(v) == "query" \in DOMAIN v

\* JavaScript truthiness of a scalar value: v ? a : b
Truthy(v) == IsScalar(v) => v.data \notin {"false", "", "0"}

\* `${a}${v}${b}`: a template literal around a value is a string
Template(a, v, b) == Str(a \o v.data \o b)

(***************************************************************************)
(* Tokens of SQL text.                                                     *)
(***************************************************************************)
Lit(s) == [lit |-> s]
IsLit(t) == "lit" \in DOMAIN t
IsEscapedKey(t) == "escapeKey" \in DOMAIN t
IsEscapedValue(t) == "escape" \in DOMAIN t
IsText(t) == "text" \in DOMAIN t

RECURSIVE Join(_, _)
\* parts.join(sep) on a list of token sequences
Join(parts, sep) ==
    IF parts = <<>> THEN <<>>
    ELSE IF Len(parts) = 1 THEN parts[1]
    ELSE parts[1] \o <<Lit(sep)>> \o Join(Tail(parts), sep)

RECURSIVE Flatten(_)
Flatten(parts) ==
    IF parts = <<>> THEN <<>> ELSE parts[1] \o Flatten(Tail(parts))

\* the number of positions of sequence s that satisfy P
Count(s, P(_)) == Cardinality({i \in DOMAIN s : P(s[i])})

(***************************************************************************)
(* utils/key-map: an ordered list of (key, value) pairs with unique keys.  *)
(***************************************************************************)
KeyMapHas(km, key) == \E i \in DOMAIN km : km[i][1] = key
KeyMapIndex(km, key) == CHOOSE i \in DOMAIN km : km[i][1] = key
KeyMapGet(km, key) == km[KeyMapIndex(km, key)][2]
\* set: overwrite in place, or append
KeyMapSet(km, key, value) ==
    IF KeyMapHas(km, key)
    THEN [km EXCEPT ![KeyMapIndex(km, key)] = <<key, value>>]
    ELSE Append(km, <<key, value>>)
KeyMapKeys(km) == [i \in DOMAIN km |-> km[i][1]]
KeyMapValues(km) == [i \in DOMAIN km |-> km[i][2]]


(***************************************************************************)
(* The schema of the class the queries are built for (features/orm/class,  *)
(* read through this.class and getDefinition()).                           *)
(***************************************************************************)
ClassName == "Post"
ClassSource == "post"
DefinitionKeys == <<"title", "status">>
DefinitionTimestamps == <<CreatedAt, UpdatedAt, DeletedAt>>
\* one relation, `author`, to the class stored in table `user`
DefinitionRelations ==
    <<[alias |-> "author", targetTable |-> "user",
       parentColumn |-> "author.id", childColumn |-> "Post.author_id"]>>
RelationKeys == {DefinitionRelations[i].alias : i \in DOMAIN DefinitionRelations}
RelationOf(key) ==
    DefinitionRelations[CHOOSE i \in DOMAIN DefinitionRelations :
                            DefinitionRelations[i].alias = key]
\* the columns a relation contributes to a selection
RelationColumns == <<InternalId, "name">>

Range(s) == {s[i] : i \in DOMAIN s}

DeclaredKeys ==
    {InternalId} \cup Range(DefinitionKeys) \cup Range(DefinitionTimestamps)
    \cup RelationKeys

(***************************************************************************)
(* utils/compound-key: a key naming several columns joined by a delimiter. *)
(***************************************************************************)
CompoundDelimiter == "|"
CompoundKeyLists ==
    {<<"title", "status">>, <<"status", "title">>,
     <<"Post.title", "Post.status">>, <<"Post.status", "Post.title">>}
CompoundKeyJoin(ks) == ks[1] \o CompoundDelimiter \o ks[2]
CompoundKeyIsUsedBy(key) == \E ks \in CompoundKeyLists : CompoundKeyJoin(ks) = key
CompoundKeyFrom(key) == CHOOSE ks \in CompoundKeyLists : CompoundKeyJoin(ks) = key

\* this.class.has(key): a declared key, or a compound of declared keys
ClassHas(key) ==
    \/ key \in DeclaredKeys
    \/ /\ CompoundKeyIsUsedBy(key)
       /\ \A i \in DOMAIN CompoundKeyFrom(key) : CompoundKeyFrom(key)[i] \in DeclaredKeys

(***************************************************************************)
(* The transport (adapters/database/mysql/client): its two escaping        *)
(* functions, each result kept as one token that records the call.         *)
(***************************************************************************)
clientEscapeKey(key, useRaw) == [escapeKey |-> key, useRaw |-> useRaw]
clientEscape(value) == [escape |-> value]

(***************************************************************************)
(* State.                                                                  *)
(***************************************************************************)
Queries == {1, 2}

VARIABLES
    \* Query fields, one per query instance
    selection, included, constraints, skipped, limitation,
    \* the array Defaults.Query.Sort, which the field `sorting` of every
    \* query is initialised to refer to (query.ts:17)
    sorting,
    \* the number of builder calls made so far
    calls,
    \* the most recent call: its name, its arguments and how it ended
    last,
    \* the statements the most recent adapter call handed to client.query
    sent,
    \* the KeyMap the caller passed to the most recent adapter call, as the
    \* call left it (find is passed none)
    payload,
    \* the wall clock
    clock,
    \* the limit a numeric key of a class was decorated with by min(limit)
    minLimit,
    \* what the accessor under that key holds, one per instance of the class
    numberKey

builderVars == <<selection, included, constraints, skipped, limitation, sorting, calls>>
adapterVars == <<sent, payload, clock>>
modifierVars == <<minLimit, numberKey>>
vars == <<selection, included, constraints, skipped, limitation, sorting, calls,
          last, sent, payload, clock, minLimit, numberKey>>

(***************************************************************************)
(* utils/constraint-map: key -> list of {key, constraint, value}, keys in  *)
(* the order they were first set.                                          *)
(***************************************************************************)
ConstraintMapHas(cm, key) == \E i \in DOMAIN cm : cm[i].key = key
ConstraintMapIndex(cm, key) == CHOOSE i \in DOMAIN cm : cm[i].key = key
\* set: append an entry to the key's list
ConstraintMapSet(cm, key, constraint, value) ==
    LET entry == [key |-> key, constraint |-> constraint, value |-> value]
    IN  IF ConstraintMapHas(cm, key)
        THEN [cm EXCEPT ![ConstraintMapIndex(cm, key)].constraints = Append(@, entry)]
        ELSE Append(cm, [key |-> key, constraints |-> <<entry>>])
\* toArray() followed by the reduce of getFindClause: all entries, key by key
ConstraintMapEntries(cm) == Flatten([i \in DOMAIN cm |-> cm[i].constraints])

(***************************************************************************)
(* features/orm/query-mapper: the four functions toQueryOptions calls.     *)
(***************************************************************************)
Qualified(className, key) == className \o "." \o key
\* the key of a constraint, each key of a compound key qualified by itself
QualifiedConstraintKey(className, key) ==
    IF CompoundKeyIsUsedBy(key)
    THEN CompoundKeyJoin([i \in DOMAIN CompoundKeyFrom(key) |->
                             Qualified(className, CompoundKeyFrom(key)[i])])
    ELSE Qualified(className, key)

\* a relation key expands to the relation's columns, prefixed with its alias
getColumnsFrom(className, selected) ==
    Flatten([i \in DOMAIN selected |->
        IF selected[i] \in RelationKeys
        THEN [j \in DOMAIN RelationColumns |->
                 <<Qualified(selected[i], RelationColumns[j]),
                   Qualified(selected[i], RelationColumns[j])>>]
        ELSE <<<<Qualified(className, selected[i]), selected[i]>>>>])

getRelationsFrom(selected) ==
    Flatten([i \in DOMAIN selected |->
        IF selected[i] \in RelationKeys THEN <<RelationOf(selected[i])>> ELSE <<>>])

getConstraintsFrom(className, cm) ==
    [i \in DOMAIN cm |->
        [key |-> QualifiedConstraintKey(className, cm[i].key),
         constraints |-> [j \in DOMAIN cm[i].constraints |->
             [cm[i].constraints[j] EXCEPT !.key = QualifiedConstraintKey(className, @)]]]]

getSortingFrom(className, sort) == sort

(***************************************************************************)
(* Query.getSelection and Query.toQueryOptions.                            *)
(***************************************************************************)
\* a default selection without the timestamps
getSelectionWithoutTimestamps(q) ==
    LET defaultSelect == <<InternalId>> \o DefinitionKeys
        selected == IF Len(selection[q]) > 0 THEN selection[q] ELSE defaultSelect
    IN  selected \o included[q]

getSelection(q) ==
    LET defaultSelect == <<InternalId>> \o DefinitionKeys \o DefinitionTimestamps
        selected == IF Len(selection[q]) > 0 THEN selection[q] ELSE defaultSelect
    IN  selected \o included[q]

toQueryOptions(q) ==
    [source |-> <<ClassSource, ClassName>>,
     columns |-> getColumnsFrom(ClassName, getSelection(q)),
     relations |-> getRelationsFrom(getSelection(q)),
     constraints |-> getConstraintsFrom(ClassName, constraints[q]),
     sorting |-> getSortingFrom(ClassName, sorting),
     skipped |-> skipped[q],
     limitation |-> limitation[q]]

(***************************************************************************)
(* MySQLDatabaseAdapter: escaping.                                         *)
(***************************************************************************)
\* a thrown error, kept at the place of the text that was being built
Throw(code) == [throw |-> code]
IsThrow(t) == "throw" \in DOMAIN t
Throws(tokens) == \E i \in DOMAIN tokens : IsThrow(tokens[i])
\* the first error thrown while the text was built
Thrown(tokens) ==
    tokens[CHOOSE i \in DOMAIN tokens :
              IsThrow(tokens[i]) /\ \A j \in 1..(i - 1) : ~IsThrow(tokens[j])].throw

escapeKey(key, useRaw) ==
    IF CompoundKeyIsUsedBy(key)
    THEN <<Lit("CONCAT(")>>
         \o Join([i \in DOMAIN CompoundKeyFrom(key) |->
                     <<clientEscapeKey(CompoundKeyFrom(key)[i], FALSE)>>], ",")
         \o <<Lit(")")>>
    ELSE <<clientEscapeKey(key, useRaw)>>

\* the escape methods are set on an Increment or JsonAction, then it is escaped
regularEscape(value) ==
    IF IsWrapper(value)
    THEN <<clientEscape([value EXCEPT !.bound = TRUE])>>
    ELSE <<clientEscape(value)>>

collectionEscape(value) ==
    Join([i \in DOMAIN value.array |-> regularEscape(value.array[i])], ", ")

RECURSIVE getFindClause(_)

subqueryEscape(query) ==
    LET o == toQueryOptions(query.query)
    IN  getFindClause([source |-> o.source, columns |-> o.columns,
                       relations |-> o.relations, constraints |-> o.constraints])

(***************************************************************************)
(* MySQLDatabaseAdapter.constraints: constraint kind -> fragment, given    *)
(* the escaped key k (tokens) and the raw value v.                         *)
(***************************************************************************)
Constraints ==
    {"EqualTo", "NotEqualTo", "GreaterThan", "GreaterThanOrEqualTo", "LessThan",
     "LessThanOrEqualTo", "Exists", "ContainedIn", "NotContainedIn",
     "ContainedInOrDoesNotExist", "StartsWith", "EndsWith", "Contains",
     "ContainsEither", "ContainsAll", "FoundIn", "FoundInEither", "FoundInAll",
     "NotFoundIn", "NotFoundInEither", "NotFoundInAll"}

\* the kinds that have an entry in the adapter's table
CompilerKinds == Constraints \ {"NotFoundInAll"}

\* `(${mapped.join(sep)})`, mapped being v.map(i => ...)
Group(mapped, sep) == <<Lit("(")>> \o Join(mapped, sep) \o <<Lit(")")>>

\* an equalTo fragment that writes the value as it was given
constraintsEqualToRaw(k, v) == k \o <<Lit(" = ")>> \o <<[text |-> v]>>
constraintsEqualTo(k, v) == k \o <<Lit(" = ")>> \o regularEscape(v)
constraintsContainedInOrDoesNotExist(k, v) ==
    <<Lit("(")>> \o k \o <<Lit(" IS NULL OR ")>> \o k \o <<Lit(" IN (")>>
    \o collectionEscape(v) \o <<Lit("))")>>
constraintsLike(k, v) == k \o <<Lit(" LIKE ")>> \o regularEscape(v)
constraintsIn(k, v) == k \o <<Lit(" IN (")>> \o subqueryEscape(v) \o <<Lit(")")>>
constraintsNotIn(k, v) == k \o <<Lit(" NOT IN (")>> \o subqueryEscape(v) \o <<Lit(")")>>

constraintsTable(constraint, k, v) ==
    CASE constraint = "EqualTo" -> constraintsEqualTo(k, v)
      [] constraint = "NotEqualTo" -> k \o <<Lit(" <> ")>> \o regularEscape(v)
      [] constraint = "GreaterThan" -> k \o <<Lit(" > ")>> \o regularEscape(v)
      [] constraint = "GreaterThanOrEqualTo" -> k \o <<Lit(" >= ")>> \o regularEscape(v)
      [] constraint = "LessThan" -> k \o <<Lit(" < ")>> \o regularEscape(v)
      [] constraint = "LessThanOrEqualTo" -> k \o <<Lit(" <= ")>> \o regularEscape(v)
      [] constraint = "Exists" ->
            k \o <<Lit(" ")>> \o <<Lit(IF Truthy(v) THEN "IS NOT NULL" ELSE "IS NULL")>>
      [] constraint = "ContainedIn" ->
            k \o <<Lit(" IN (")>> \o collectionEscape(v) \o <<Lit(")")>>
      [] constraint = "NotContainedIn" ->
            k \o <<Lit(" NOT IN (")>> \o collectionEscape(v) \o <<Lit(")")>>
      [] constraint = "ContainedInOrDoesNotExist" ->
            constraintsContainedInOrDoesNotExist(k, v)
      [] constraint = "StartsWith" -> constraintsLike(k, Template("", v, "%"))
      [] constraint = "EndsWith" -> constraintsLike(k, Template("%", v, ""))
      [] constraint = "Contains" -> constraintsLike(k, Template("%", v, "%"))
      [] constraint = "ContainsEither" ->
            Group([j \in DOMAIN v.array |-> constraintsLike(k, Template("%", v.array[j], "%"))], " OR ")
      [] constraint = "ContainsAll" ->
            Group([j \in DOMAIN v.array |-> constraintsLike(k, Template("%", v.array[j], "%"))], " AND ")
      [] constraint = "FoundIn" -> constraintsIn(k, v)
      [] constraint = "FoundInEither" -> Group([j \in DOMAIN v.array |-> constraintsIn(k, v.array[j])], " OR ")
      [] constraint = "FoundInAll" -> Group([j \in DOMAIN v.array |-> constraintsIn(k, v.array[j])], " AND ")
      [] constraint = "NotFoundIn" -> constraintsNotIn(k, v)
      [] constraint = "NotFoundInEither" ->
            Group([j \in DOMAIN v.array |-> constraintsNotIn(k, v.array[j])], " AND ")

\* parseConstraint that skips a kind it does not know
parseConstraintSkipping(key, constraint, value) ==
    IF constraint \in CompilerKinds
    THEN constraintsTable(constraint, escapeKey(key, FALSE), value)
    ELSE <<>>

parseConstraint(key, constraint, value) ==
    LET escapedKey == escapeKey(key, FALSE)
    IN  IF constraint \in CompilerKinds
        THEN constraintsTable(constraint, escapedKey, value)
        ELSE <<Throw(ForbiddenOperation)>>

(***************************************************************************)
(* MySQLDatabaseAdapter.getFindClause and getSortClause.                   *)
(***************************************************************************)
getFindClause(o) ==
    LET select == [i \in DOMAIN o.columns |->
                      escapeKey(o.columns[i][1], FALSE) \o <<Lit(" AS ")>>
                      \o escapeKey(o.columns[i][2], TRUE)]
        from == escapeKey(o.source[1], FALSE) \o <<Lit(" AS ")>>
                \o escapeKey(o.source[2], FALSE)
        joins == [i \in DOMAIN o.relations |->
                     <<Lit("LEFT OUTER JOIN ")>>
                     \o escapeKey(o.relations[i].targetTable, FALSE) \o <<Lit(" AS ")>>
                     \o escapeKey(o.relations[i].alias, TRUE) \o <<Lit(" ON ")>>
                     \o escapeKey(o.relations[i].parentColumn, FALSE) \o <<Lit(" = ")>>
                     \o escapeKey(o.relations[i].childColumn, FALSE)]
        entries == ConstraintMapEntries(o.constraints)
        where == [i \in DOMAIN entries |->
                     parseConstraint(entries[i].key, entries[i].constraint,
                                     entries[i].value)]
    IN  <<Lit("SELECT ")>> \o Join(select, ", ") \o <<Lit(" FROM ")>> \o from
        \o <<Lit(" ")>> \o Join(joins, "\n") \o <<Lit(" WHERE ")>> \o Join(where, " AND ")

\* the names a sort token can carry after the sort symbol
SortNames ==
    {InternalId} \cup Range(DefinitionKeys) \cup Range(DefinitionTimestamps)
\* keySort[0] === SortSymbol
IsDescending(keySort) == \E k \in SortNames : keySort = SortSymbol \o k
\* keySort.slice(1)
Slice1(keySort) == CHOOSE k \in SortNames : keySort = SortSymbol \o k

getSortClause(sort) ==
    Join([i \in DOMAIN sort |->
             IF IsDescending(sort[i])
             THEN escapeKey(Slice1(sort[i]), FALSE) \o <<Lit(" DESC")>>
             ELSE escapeKey(sort[i], FALSE) \o <<Lit(" ASC")>>], ", ")

(***************************************************************************)
(* MySQLDatabaseAdapter: find, create, update, destroy.                    *)
(***************************************************************************)
\* require('../../../package.json').version
version == Str("5.0.0")
\* `${x}` of something that is no token yet
Text(x) == [text |-> x]
\* a number n/d, as skip and limit receive it
Num(n, d) == [num |-> n, den |-> d]

\* new Date().toISOString(): the instant the clock shows, as text
toISOString(t) == ToString(t)
\* utils/format toDatabaseDate: the storage form of an instant
toDatabaseDate(iso) == Str("2020-01-01 00:00:0" \o iso)
currentTimestamp == toDatabaseDate(toISOString(clock))

Statement(script, mode) == [script |-> script, mode |-> mode]

findScript(source, columns, relations, cm, sort, skip, limit) ==
    getFindClause([source |-> source, columns |-> columns,
                   relations |-> relations, constraints |-> cm])
    \o <<Lit(" ORDER BY ")>> \o getSortClause(sort) \o <<Lit(" LIMIT ")>>
    \o <<Text(skip)>> \o <<Lit(", ")>> \o <<Text(limit)>>
    \o <<Lit("; -- Warp Server ")>> \o <<Text(version)>>

\* create reading the clock once for each timestamp, the clock moving between
createKeysTwoReadings(keys, now) ==
    KeyMapSet(KeyMapSet(keys, CreatedAt, now), UpdatedAt,
              toDatabaseDate(toISOString(clock + 1)))
\* the payload of create after its timestamps are added
createKeys(keys, now) == KeyMapSet(KeyMapSet(keys, CreatedAt, now), UpdatedAt, now)

createScript(source, keys) ==
    LET sqlInputKeys == [i \in DOMAIN keys |-> <<clientEscapeKey(KeyMapKeys(keys)[i], FALSE)>>]
        sqlInputValues == [i \in DOMAIN keys |-> <<clientEscape(KeyMapValues(keys)[i])>>]
    IN  <<Lit("INSERT INTO ")>> \o <<clientEscapeKey(source, FALSE)>> \o <<Lit(" (")>>
        \o Join(sqlInputKeys, ", ") \o <<Lit(") ")>> \o <<Lit("VALUES (")>>
        \o Join(sqlInputValues, ", ") \o <<Lit("); -- Warp Server ")>> \o <<Text(version)>>

\* the payload of update after its timestamp is added
updateKeys(keys, now) == KeyMapSet(keys, UpdatedAt, now)

\* `${this.client.escapeKey(key)} = ${this.client.escape(value)}` per pair
sqlInput(keys) ==
    [i \in DOMAIN keys |->
        <<clientEscapeKey(keys[i][1], FALSE), Lit(" = "), clientEscape(keys[i][2])>>]

\* `WHERE ${idKey} = ${id}`
whereId(id) == <<Lit(" WHERE "), clientEscapeKey(InternalId, FALSE), Lit(" = "), Text(id)>>

updateScript(source, keys, id) ==
    <<Lit("UPDATE ")>> \o <<clientEscapeKey(source, FALSE)>> \o <<Lit(" SET ")>>
    \o Join(sqlInput(keys), ", ") \o whereId(id)
    \o <<Lit("; -- Warp Server ")>> \o <<Text(version)>>

\* the payload of destroy after its timestamps are added
destroyKeys(keys, now) == KeyMapSet(KeyMapSet(keys, UpdatedAt, now), DeletedAt, now)

\* a destroy that removes the row
destroyScriptDelete(source, keys, id) ==
    <<Lit("DELETE FROM ")>> \o <<clientEscapeKey(source, FALSE)>> \o whereId(id)
    \o <<Lit("; -- Warp Server ")>> \o <<Text(version)>>

destroyScript(source, keys, id) ==
    <<Lit("UPDATE ")>> \o <<clientEscapeKey(source, FALSE)>> \o <<Lit(" SET ")>>
    \o Join(sqlInput(keys), ", ") \o whereId(id)
    \o <<Lit("; -- Warp Server ")>> \o <<Text(version)>>

(***************************************************************************)
(* The inputs the adapter is called with.                                  *)
(***************************************************************************)
Sources == {"post"}
StringInputs == {Str("a"), Str("x' OR '1'='1")}
IdInputs == {Str("7"), Str("7 OR 1=1")}
PayloadInputs ==
    {<<>>,
     <<<<"title", Str("a")>>>>,
     <<<<"title", Str("x' OR '1'='1")>>, <<"status", Str("a")>>>>,
     <<<<UpdatedAt, Str("old")>>, <<"title", Str("a")>>>>,
     <<<<"status", Increment("1")>>>>,
     <<<<DeletedAt, Str("old")>>, <<"title", Str("a")>>, <<CreatedAt, Str("old")>>>>}

\* lists of at most MaxValues members of S
ListsOf(S) == UNION {[1..n -> S] : n \in 0..MaxValues}

\* the values a constraint of each kind is given
ValueInputs(constraint) ==
    CASE constraint = "Exists" -> {Bool(TRUE), Bool(FALSE)}
      [] constraint \in {"ContainedIn", "NotContainedIn", "ContainedInOrDoesNotExist",
                         "ContainsEither", "ContainsAll"} ->
            {Arr(items) : items \in ListsOf(StringInputs)}
      [] constraint \in {"FoundIn", "NotFoundIn"} -> {QueryRef(2)}
      [] constraint \in {"FoundInEither", "FoundInAll", "NotFoundInEither",
                         "NotFoundInAll"} ->
            {Arr(items) : items \in ListsOf({QueryRef(2)})}
      [] OTHER -> StringInputs

\* a kind no builder method and no compiler entry knows
UnknownKind == "Near"
KindInputs == Constraints \cup {UnknownKind}
ConstraintKeyInputs == {"Post.title", "title|status"}
EntryInputs ==
    UNION {{[key |-> k, constraint |-> c, value |-> v] : v \in ValueInputs(c)} :
              <<k, c>> \in ConstraintKeyInputs \X KindInputs}
\* the value of each kind that find is exercised with
FindValue(constraint) ==
    CASE constraint = "Exists" -> Bool(FALSE)
      [] constraint \in {"ContainedIn", "NotContainedIn", "ContainedInOrDoesNotExist",
                         "ContainsEither", "ContainsAll"} ->
            Arr(<<Str("a"), Str("x' OR '1'='1")>>)
      [] constraint \in {"FoundIn", "NotFoundIn"} -> QueryRef(2)
      [] constraint \in {"FoundInEither", "FoundInAll", "NotFoundInEither",
                         "NotFoundInAll"} -> Arr(<<QueryRef(2)>>)
      [] OTHER -> Str("x' OR '1'='1")
\* the constraint maps find is given: empty, one entry of each kind, a
\* wrapper as value, and an entry of an unknown kind before and after an
\* entry of a known one
ConstraintMapInputs ==
    {<<>>}
    \cup {ConstraintMapSet(<<>>, "Post.title", c, FindValue(c)) : c \in KindInputs}
    \cup {ConstraintMapSet(<<>>, "Post.status", "EqualTo", JsonAction("append"))}
    \cup {ConstraintMapSet(ConstraintMapSet(<<>>, "Post.title", "EqualTo", Str("a")),
                           "Post.status", UnknownKind, Str("a")),
          ConstraintMapSet(ConstraintMapSet(<<>>, "Post.title", UnknownKind, Str("a")),
                           "Post.title", "EqualTo", Str("a"))}
\* columns, relations, sorting, skip and limit of a find
FindInputs ==
    {[columns |-> <<<<"Post.id", "id">>>>, relations |-> <<>>, sorting |-> <<>>,
      skipped |-> Num(0, 1), limitation |-> Num(100, 1)],
     [columns |-> <<<<"Post.id", "id">>, <<"author.id", "author.id">>>>,
      relations |-> DefinitionRelations, sorting |-> <<"-title", "status">>,
      skipped |-> Num(3, 2), limitation |-> Num(10, 1)]}

(***************************************************************************)
(* Initial state: two queries just constructed, nothing sent.              *)
(***************************************************************************)
\* the values a key can hold: a number n, or undefined
NumberValue(n) == [number |-> n]
Undefined == [undefined |-> TRUE]
Instances == {1, 2}
\* no key assigned yet in any instance
Undecorated ==
    /\ minLimit = 0
    /\ numberKey = [c \in Instances |-> Undefined]

Init ==
    /\ selection = [q \in Queries |-> <<>>]
    /\ included = [q \in Queries |-> <<>>]
    /\ constraints = [q \in Queries |-> <<>>]
    /\ sorting = <<>>
    /\ skipped = [q \in Queries |-> Num(DefaultsQuerySkip, 1)]
    /\ limitation = [q \in Queries |-> Num(DefaultsQueryLimit, 1)]
    /\ calls = 0
    /\ last = [op |-> "new", error |-> NoError]
    /\ sent = <<>>
    /\ payload = <<>>
    /\ clock = 1
    /\ Undecorated

(***************************************************************************)
(* Adapter calls.                                                          *)
(***************************************************************************)
Tick ==
    /\ clock < MaxClock
    /\ clock' = clock + 1
    /\ UNCHANGED <<builderVars, modifierVars, last, sent, payload>>

Find ==
    \E source \in Sources, o \in FindInputs, cm \in ConstraintMapInputs :
        LET selectScript == findScript(<<source, ClassName>>, o.columns, o.relations, cm,
                                       o.sorting, o.skipped, o.limitation)
        IN  /\ sent' = IF Throws(selectScript) THEN <<>>
                       ELSE <<Statement(selectScript, DatabaseRead)>>
            /\ last' = [op |-> "find", constraints |-> cm,
                        error |-> IF Throws(selectScript) THEN Thrown(selectScript)
                                  ELSE NoError]
            /\ payload' = <<>>
            /\ UNCHANGED <<builderVars, modifierVars, clock>>

\* the KeyMap a write is given: a new one, or the one of the previous write
KeyMapInputs == PayloadInputs \cup {payload}

Create ==
    \E source \in Sources, keys \in KeyMapInputs :
        LET now == currentTimestamp
            stamped == createKeys(keys, now)
        IN  /\ payload' = stamped
            /\ sent' = <<Statement(createScript(source, stamped), DatabaseWrite)>>
            /\ last' = [op |-> "create", source |-> source, keys |-> keys, now |-> now,
                        error |-> NoError]
            /\ UNCHANGED <<builderVars, modifierVars, clock>>

Update ==
    \E source \in Sources, keys \in KeyMapInputs, id \in IdInputs :
        LET now == currentTimestamp
            stamped == updateKeys(keys, now)
        IN  /\ payload' = stamped
            /\ sent' = <<Statement(updateScript(source, stamped, id), DatabaseWrite)>>
            /\ last' = [op |-> "update", source |-> source, keys |-> keys, id |-> id,
                        now |-> now, error |-> NoError]
            /\ UNCHANGED <<builderVars, modifierVars, clock>>

Destroy ==
    \E source \in Sources, keys \in KeyMapInputs, id \in IdInputs :
        LET now == currentTimestamp
            stamped == destroyKeys(keys, now)
        IN  /\ payload' = stamped
            /\ sent' = <<Statement(destroyScript(source, stamped, id), DatabaseWrite)>>
            /\ last' = [op |-> "destroy", source |-> source, keys |-> keys, id |-> id,
                        now |-> now, error |-> NoError]
            /\ UNCHANGED <<builderVars, modifierVars, clock>>

AdapterNext == Tick \/ Find \/ Create \/ Update \/ Destroy

AdapterSpec == Init /\ [][AdapterNext]_vars

(***************************************************************************)
(* Query: the constraint methods.                                          *)
(***************************************************************************)
DateValue(t) == [type |-> "Date", data |-> toISOString(t), bound |-> FALSE]
Number(n) == [type |-> "number", data |-> ToString(n), bound |-> FALSE]

\* a set that stores a kind once for each key
setWithoutRepeats(cm, key, constraint, value) ==
    IF ~ClassHas(key)
    THEN [error |-> ForbiddenOperation, cm |-> cm]
    ELSE IF /\ ConstraintMapHas(cm, key)
            /\ \E i \in DOMAIN cm[ConstraintMapIndex(cm, key)].constraints :
                   cm[ConstraintMapIndex(cm, key)].constraints[i].constraint = constraint
    THEN [error |-> NoError, cm |-> cm]
    ELSE [error |-> NoError, cm |-> ConstraintMapSet(cm, key, constraint, value)]

\* Query.set: the constraint map after the call and the error thrown
set(cm, key, constraint, value) ==
    IF ~ClassHas(key)
    THEN [error |-> ForbiddenOperation, cm |-> cm]
    ELSE [error |-> NoError,
          cm |-> ConstraintMapSet(cm, key, constraint,
                     IF IsScalar(value) /\ value.type = "Date"
                     THEN toDatabaseDate(value.data) ELSE value)]

\* if(typeof value === 'boolean') value = value ? 1 : 0
booleanToNumber(value) ==
    IF IsScalar(value) /\ value.type = "boolean"
    THEN Number(IF Truthy(value) THEN 1 ELSE 0) ELSE value

\* if(key instanceof Array) key = key.join('|')
joinKey(key) == IF "keys" \in DOMAIN key THEN CompoundKeyJoin(key.keys) ELSE key.key

\* a method whose body is this.set(key, constraint, value)
ConstraintCall(q, op, key, constraint, value) ==
    LET r == set(constraints[q], key, constraint, value)
    IN  /\ calls < MaxCalls
        /\ calls' = calls + 1
        /\ constraints' = [constraints EXCEPT ![q] = r.cm]
        /\ last' = [op |-> op, q |-> q, key |-> key, constraint |-> constraint,
                    value |-> value, error |-> r.error]
        /\ UNCHANGED <<selection, included, sorting, skipped, limitation, adapterVars, modifierVars>>

KeyInputs == {"title", "bogus"}
ScalarInputs == {Str("a")}
EqualityInputs == {Str("a"), Bool(TRUE), DateValue(1)}
ArrayInputs == {Arr(<<Str("a"), Str("b")>>)}
ContainsKeyInputs ==
    {[key |-> "title"], [key |-> "bogus"], [keys |-> <<"title", "status">>]}

equalTo ==
    \E q \in Queries, key \in KeyInputs, value \in EqualityInputs :
        ConstraintCall(q, "equalTo", key, "EqualTo", booleanToNumber(value))
notEqualTo ==
    \E q \in Queries, key \in KeyInputs, value \in EqualityInputs :
        ConstraintCall(q, "notEqualTo", key, "NotEqualTo", booleanToNumber(value))
greaterThan ==
    \E q \in Queries, key \in KeyInputs, value \in ScalarInputs :
        ConstraintCall(q, "greaterThan", key, "GreaterThan", value)
greaterThanOrEqualTo ==
    \E q \in Queries, key \in KeyInputs, value \in ScalarInputs :
        ConstraintCall(q, "greaterThanOrEqualTo", key, "GreaterThanOrEqualTo", value)
lessThan ==
    \E q \in Queries, key \in KeyInputs, value \in ScalarInputs :
        ConstraintCall(q, "lessThan", key, "LessThan", value)
lessThanOrEqualTo ==
    \E q \in Queries, key \in KeyInputs, value \in ScalarInputs :
        ConstraintCall(q, "lessThanOrEqualTo", key, "LessThanOrEqualTo", value)
exists ==
    \E q \in Queries, key \in KeyInputs :
        ConstraintCall(q, "exists", key, "Exists", Bool(TRUE))
doesNotExist ==
    \E q \in Queries, key \in KeyInputs :
        ConstraintCall(q, "doesNotExist", key, "Exists", Bool(FALSE))
containedIn ==
    \E q \in Queries, key \in KeyInputs, value \in ArrayInputs :
        ConstraintCall(q, "containedIn", key, "ContainedIn", value)
notContainedIn ==
    \E q \in Queries, key \in KeyInputs, value \in ArrayInputs :
        ConstraintCall(q, "notContainedIn", key, "NotContainedIn", value)
containedInOrDoesNotExist ==
    \E q \in Queries, key \in KeyInputs, value \in ArrayInputs :
        ConstraintCall(q, "containedInOrDoesNotExist", key, "ContainedInOrDoesNotExist",
                       value)
startsWith ==
    \E q \in Queries, key \in KeyInputs, value \in ScalarInputs :
        ConstraintCall(q, "startsWith", key, "StartsWith", value)
endsWith ==
    \E q \in Queries, key \in KeyInputs, value \in ScalarInputs :
        ConstraintCall(q, "endsWith", key, "EndsWith", value)
contains ==
    \E q \in Queries, key \in ContainsKeyInputs, value \in ScalarInputs :
        ConstraintCall(q, "contains", joinKey(key), "Contains", value)
containsEither ==
    \E q \in Queries, key \in ContainsKeyInputs, value \in ArrayInputs :
        ConstraintCall(q, "containsEither", joinKey(key), "ContainsEither", value)
containsAll ==
    \E q \in Queries, key \in ContainsKeyInputs, value \in ArrayInputs :
        ConstraintCall(q, "containsAll", joinKey(key), "ContainsAll", value)

(***************************************************************************)
(* Query.select, include, toSubquery and the sub-query constraints.        *)
(* The arguments of a rest parameter are a list whose members are          *)
(* [key |-> k] (a string) or [keys |-> <<k1, ...>>] (an array).            *)
(***************************************************************************)
\* keys[0] instanceof Array ? keys[0] : keys
keyListOf(keys) ==
    IF Len(keys) > 0 /\ "keys" \in DOMAIN keys[1] THEN keys[1].keys
    ELSE [i \in DOMAIN keys |-> keys[i].key]

\* the keys a loop pushes before it throws at the first undeclared key
pushed(keyList) ==
    SubSeq(keyList, 1,
           IF \A i \in DOMAIN keyList : ClassHas(keyList[i]) THEN Len(keyList)
           ELSE (CHOOSE i \in DOMAIN keyList :
                    /\ ~ClassHas(keyList[i])
                    /\ \A j \in 1..(i - 1) : ClassHas(keyList[j])) - 1)

\* Query.select on a query whose selection is sel
select(sel, keys) ==
    IF Len(keys) = 0
    THEN [error |-> MissingConfiguration, selection |-> sel]
    ELSE [error |-> IF pushed(keyListOf(keys)) = keyListOf(keys) THEN NoError
                    ELSE InvalidObjectKey,
          selection |-> sel \o pushed(keyListOf(keys))]

\* Query.include on a query whose included list is inc
include(inc, keys) ==
    [error |-> IF pushed(keyListOf(keys)) = keyListOf(keys) THEN NoError
               ELSE InvalidObjectKey,
     included |-> inc \o pushed(keyListOf(keys))]

\* a toSubquery that narrows only a query that has no selection yet
toSubqueryKeepingSelection(sel, key) ==
    IF sel # <<>> THEN [error |-> NoError, selection |-> sel]
    ELSE select(<<>>, <<[key |-> key]>>)

\* Query.toSubquery: this.selection = []; this.select(select)
toSubquery(sel, key) == select(<<>>, <<[key |-> key]>>)

RECURSIVE toSubqueries(_, _)
\* value.map(item => item.query.toSubquery(item.select)) over the selections
toSubqueries(sels, items) ==
    IF items = <<>> THEN [error |-> NoError, selection |-> sels]
    ELSE LET r == toSubquery(sels[items[1].query], items[1].select)
             next == [sels EXCEPT ![items[1].query] = r.selection]
         IN  IF r.error # NoError THEN [error |-> r.error, selection |-> next]
             ELSE toSubqueries(next, Tail(items))

\* a method whose body is this.set(key, constraint, <the narrowed queries>)
SubqueryCall(q, op, key, constraint, items, value) ==
    LET subs == toSubqueries(selection, items)
        r == set(constraints[q], key, constraint, value)
    IN  /\ calls < MaxCalls
        /\ calls' = calls + 1
        /\ selection' = subs.selection
        /\ constraints' = IF subs.error = NoError
                          THEN [constraints EXCEPT ![q] = r.cm] ELSE constraints
        /\ last' = [op |-> op, q |-> q, key |-> key, constraint |-> constraint,
                    items |-> items,
                    error |-> IF subs.error # NoError THEN subs.error ELSE r.error]
        /\ UNCHANGED <<included, sorting, skipped, limitation, adapterVars, modifierVars>>

SelectInputs ==
    {<<>>, <<[keys |-> <<>>]>>, <<[key |-> "title"]>>, <<[key |-> "bogus"]>>,
     <<[key |-> "status"], [key |-> "title"]>>, <<[keys |-> <<"title", "bogus">>]>>}
IncludeInputs == {<<>>, <<[key |-> "author"]>>, <<[key |-> "bogus"]>>}
SubqueryKeyInputs == {InternalId, "title", "bogus"}
\* a query is embedded only in a query made before it, so that the queries
\* embedded in one another form no cycle
SubqueriesOf(q) == {s \in Queries : s > q}
ItemInputs(q) ==
    {<<[select |-> k, query |-> s]>> : k \in SubqueryKeyInputs, s \in SubqueriesOf(q)}
    \cup {<<[select |-> InternalId, query |-> s], [select |-> "title", query |-> s]>> :
             s \in SubqueriesOf(q)}
QueryRefs(items) == Arr([i \in DOMAIN items |-> QueryRef(items[i].query)])

Select ==
    \E q \in Queries, keys \in SelectInputs :
        LET r == select(selection[q], keys)
        IN  /\ calls < MaxCalls
            /\ calls' = calls + 1
            /\ selection' = [selection EXCEPT ![q] = r.selection]
            /\ last' = [op |-> "select", q |-> q, keys |-> keys, error |-> r.error]
            /\ UNCHANGED <<included, constraints, sorting, skipped, limitation,
                           adapterVars, modifierVars>>

Include ==
    \E q \in Queries, keys \in IncludeInputs :
        LET r == include(included[q], keys)
        IN  /\ calls < MaxCalls
            /\ calls' = calls + 1
            /\ included' = [included EXCEPT ![q] = r.included]
            /\ last' = [op |-> "include", q |-> q, keys |-> keys, error |-> r.error]
            /\ UNCHANGED <<selection, constraints, sorting, skipped, limitation,
                           adapterVars, modifierVars>>

ToSubquery ==
    \E q \in Queries, key \in SubqueryKeyInputs :
        LET r == toSubquery(selection[q], key)
        IN  /\ calls < MaxCalls
            /\ calls' = calls + 1
            /\ selection' = [selection EXCEPT ![q] = r.selection]
            /\ last' = [op |-> "toSubquery", q |-> q, key |-> key, error |-> r.error]
            /\ UNCHANGED <<included, constraints, sorting, skipped, limitation,
                           adapterVars, modifierVars>>

foundIn ==
    \E q \in Queries, key \in KeyInputs, k \in SubqueryKeyInputs :
        \E s \in SubqueriesOf(q) :
            SubqueryCall(q, "foundIn", key, "FoundIn", <<[select |-> k, query |-> s]>>,
                         QueryRef(s))
notFoundIn ==
    \E q \in Queries, key \in KeyInputs, k \in SubqueryKeyInputs :
        \E s \in SubqueriesOf(q) :
            SubqueryCall(q, "notFoundIn", key, "NotFoundIn", <<[select |-> k, query |-> s]>>,
                         QueryRef(s))
foundInEither ==
    \E q \in Queries, key \in KeyInputs :
        \E items \in ItemInputs(q) :
            SubqueryCall(q, "foundInEither", key, "FoundInEither", items, QueryRefs(items))
foundInAll ==
    \E q \in Queries, key \in KeyInputs :
        \E items \in ItemInputs(q) :
            SubqueryCall(q, "foundInAll", key, "FoundInAll", items, QueryRefs(items))
notFoundInEither ==
    \E q \in Queries, key \in KeyInputs :
        \E items \in ItemInputs(q) :
            SubqueryCall(q, "notFoundInEither", key, "NotFoundInEither", items,
                         QueryRefs(items))
notFoundInAll ==
    \E q \in Queries, key \in KeyInputs :
        \E items \in ItemInputs(q) :
            SubqueryCall(q, "notFoundInAll", key, "NotFoundInAll", items,
                         QueryRefs(items))

(***************************************************************************)
(* Query.sortBy and sortByDescending. Both push onto this.sorting, the     *)
(* array every query was given at construction.                            *)
(***************************************************************************)
\* the names a key given to sortBy can carry after a leading '-'
SortKeyNames == DeclaredKeys \cup {"bogus"}
\* key[0] === '-' ? key.substr(1) : key
rawKey(key) ==
    IF \E k \in SortKeyNames : key = SortSymbol \o k
    THEN CHOOSE k \in SortKeyNames : key = SortSymbol \o k
    ELSE key
\* the number of keys a sort loop pushes before it throws, the loop testing
\* class.has on rawKey(key) in sortBy and on key in sortByDescending
sortPushCount(keyList, descending) ==
    LET has(i) == ClassHas(IF descending THEN keyList[i] ELSE rawKey(keyList[i]))
    IN  IF \A i \in DOMAIN keyList : has(i) THEN Len(keyList)
        ELSE (CHOOSE i \in DOMAIN keyList :
                 ~has(i) /\ \A j \in 1..(i - 1) : has(j)) - 1
\* Query.sortBy on the sorting array sort
sortBy(sort, keys) ==
    LET keyList == keyListOf(keys)
        n == sortPushCount(keyList, FALSE)
    IN  [error |-> IF n = Len(keyList) THEN NoError ELSE InvalidObjectKey,
         sorting |-> sort \o SubSeq(keyList, 1, n)]
\* Query.sortByDescending on the sorting array sort
sortByDescending(sort, keys) ==
    LET keyList == keyListOf(keys)
        n == sortPushCount(keyList, TRUE)
    IN  [error |-> IF n = Len(keyList) THEN NoError ELSE InvalidObjectKey,
         sorting |-> sort \o [i \in 1..n |-> SortSymbol \o keyList[i]]]

SortByInputs ==
    {<<[key |-> "title"]>>, <<[key |-> "-status"]>>, <<[keys |-> <<"status", "bogus">>]>>}
SortByDescendingInputs ==
    {<<[key |-> "title"]>>, <<[key |-> "-status"]>>, <<[key |-> "status"], [key |-> "title"]>>}

SortBy ==
    \E q \in Queries, keys \in SortByInputs :
        LET r == sortBy(sorting, keys)
        IN  /\ calls < MaxCalls
            /\ calls' = calls + 1
            /\ sorting' = r.sorting
            /\ last' = [op |-> "sortBy", q |-> q, keys |-> keys, error |-> r.error]
            /\ UNCHANGED <<selection, included, constraints, skipped, limitation,
                           adapterVars, modifierVars>>

SortByDescending ==
    \E q \in Queries, keys \in SortByDescendingInputs :
        LET r == sortByDescending(sorting, keys)
        IN  /\ calls < MaxCalls
            /\ calls' = calls + 1
            /\ sorting' = r.sorting
            /\ last' = [op |-> "sortByDescending", q |-> q, keys |-> keys,
                        error |-> r.error]
            /\ UNCHANGED <<selection, included, constraints, skipped, limitation,
                           adapterVars, modifierVars>>

(***************************************************************************)
(* Query.skip, limit and where.                                            *)
(***************************************************************************)
\* enforce`${{ value }} as a number, greater than or equal to 0`
enforceNumberGE0(value) == "num" \in DOMAIN value /\ value.num >= 0
IsInteger(value) == value.num % value.den = 0

NumberInputs == {Num(0 - 1, 1), Num(0, 1), Num(3, 2), Num(10, 1)}

Skip ==
    \E q \in Queries, value \in NumberInputs :
        /\ calls < MaxCalls
        /\ calls' = calls + 1
        /\ skipped' = IF enforceNumberGE0(value) THEN [skipped EXCEPT ![q] = value]
                      ELSE skipped
        /\ last' = [op |-> "skip", q |-> q, value |-> value,
                    error |-> IF enforceNumberGE0(value) THEN NoError ELSE ValidationError]
        /\ UNCHANGED <<selection, included, constraints, sorting, limitation, adapterVars, modifierVars>>

Limit ==
    \E q \in Queries, value \in NumberInputs :
        /\ calls < MaxCalls
        /\ calls' = calls + 1
        /\ limitation' = IF enforceNumberGE0(value) THEN [limitation EXCEPT ![q] = value]
                         ELSE limitation
        /\ last' = [op |-> "limit", q |-> q, value |-> value,
                    error |-> IF enforceNumberGE0(value) THEN NoError ELSE ValidationError]
        /\ UNCHANGED <<selection, included, constraints, sorting, skipped, adapterVars, modifierVars>>

RECURSIVE where(_, _)
\* Query.where over the (key, constraint, value) triples of its argument, in
\* the order Object.entries yields them
where(cm, entries) ==
    IF entries = <<>> THEN [error |-> NoError, cm |-> cm]
    ELSE LET r == set(cm, entries[1].key, entries[1].constraint, entries[1].value)
         IN  IF r.error # NoError THEN r ELSE where(r.cm, Tail(entries))

WhereInputs ==
    {<<[key |-> "title", constraint |-> "EqualTo", value |-> Str("a")]>>,
     <<[key |-> "title", constraint |-> "EqualTo", value |-> Bool(TRUE)]>>,
     <<[key |-> "title", constraint |-> UnknownKind, value |-> Str("a")]>>,
     <<[key |-> "bogus", constraint |-> "EqualTo", value |-> Str("a")]>>,
     <<[key |-> "title", constraint |-> "GreaterThan", value |-> Str("a")],
       [key |-> "bogus", constraint |-> "LessThan", value |-> Str("b")]>>,
     <<[key |-> "title", constraint |-> "GreaterThan", value |-> Str("a")],
       [key |-> "title", constraint |-> "LessThan", value |-> Str("b")]>>}

Where ==
    \E q \in Queries, entries \in WhereInputs :
        LET r == where(constraints[q], entries)
        IN  /\ calls < MaxCalls
            /\ calls' = calls + 1
            /\ constraints' = [constraints EXCEPT ![q] = r.cm]
            /\ last' = [op |-> "where", q |-> q, entries |-> entries, error |-> r.error]
            /\ UNCHANGED <<selection, included, sorting, skipped, limitation, adapterVars, modifierVars>>

\* the call that came before: its name and the query it was made on
Before == <<last.op>> \o (IF last.op = "new" THEN <<>> ELSE <<last.q>>)

\* a toQueryOptions that keeps the selection it resolved in the query
ToQueryOptionsKeepingSelection ==
    \E q \in Queries :
        /\ calls < MaxCalls
        /\ calls' = calls + 1
        /\ selection' = [selection EXCEPT ![q] = getSelection(q)]
        /\ last' = [op |-> "toQueryOptions", q |-> q, selection |-> getSelection(q),
                    result |-> toQueryOptions(q), after |-> Before, error |-> NoError]
        /\ UNCHANGED <<included, constraints, sorting, skipped, limitation, adapterVars, modifierVars>>

\* Query.toQueryOptions: `selection` is what getSelection returned to it,
\* `after` the call it followed
ToQueryOptions ==
    \E q \in Queries :
        /\ calls < MaxCalls
        /\ calls' = calls + 1
        /\ last' = [op |-> "toQueryOptions", q |-> q, selection |-> getSelection(q),
                    result |-> toQueryOptions(q), after |-> Before, error |-> NoError]
        /\ UNCHANGED <<selection, included, constraints, sorting, skipped, limitation,
                       adapterVars, modifierVars>>

(***************************************************************************)
(* MySQLDatabaseAdapter.parseConstraint on one constraint, for each entry  *)
(* of EntryInputs, with the query given as sub-query in either of two      *)
(* states.                                                                 *)
(***************************************************************************)
CompileInit ==
    /\ selection = [q \in Queries |-> <<>>]
    /\ included = [q \in Queries |-> <<>>]
    /\ constraints \in
          {[q \in Queries |-> <<>>],
           [q \in Queries |->
               IF q = 2 THEN ConstraintMapSet(<<>>, "title", "EqualTo", Str("a"))
               ELSE <<>>]}
    /\ sorting = <<>>
    /\ skipped = [q \in Queries |-> Num(DefaultsQuerySkip, 1)]
    /\ limitation = [q \in Queries |-> Num(DefaultsQueryLimit, 1)]
    /\ calls = 0
    /\ last \in {[op |-> "new", key |-> e.key, constraint |-> e.constraint,
                  value |-> e.value, error |-> NoError] : e \in EntryInputs}
    /\ sent = <<>>
    /\ payload = <<>>
    /\ clock = 1
    /\ Undecorated

ParseConstraint ==
    LET fragment == parseConstraint(last.key, last.constraint, last.value)
    IN  /\ last.op = "new"
        /\ sent' = IF Throws(fragment) THEN <<>> ELSE <<Statement(fragment, "fragment")>>
        /\ last' = [last EXCEPT !.op = "parseConstraint",
                                !.error = IF Throws(fragment) THEN Thrown(fragment)
                                          ELSE NoError]
        /\ UNCHANGED <<builderVars, modifierVars, payload, clock>>

CompileSpec == CompileInit /\ [][ParseConstraint]_vars

(***************************************************************************)
(* The builder: any of its calls, on either query.                         *)
(***************************************************************************)
Next ==
    \/ equalTo \/ notEqualTo \/ greaterThan \/ greaterThanOrEqualTo
    \/ lessThan \/ lessThanOrEqualTo \/ exists \/ doesNotExist
    \/ containedIn \/ notContainedIn \/ containedInOrDoesNotExist
    \/ startsWith \/ endsWith \/ contains \/ containsEither \/ containsAll
    \/ foundIn \/ notFoundIn \/ foundInEither \/ foundInAll
    \/ notFoundInEither \/ notFoundInAll
    \/ Select \/ Include \/ ToSubquery \/ Skip \/ Limit \/ Where
    \/ SortBy \/ SortByDescending
    \/ ToQueryOptions

Spec == Init /\ [][Next]_vars

\* the calls that read or write the selection and the included relations
SelectionNext ==
    \/ Select \/ Include \/ ToSubquery \/ ToQueryOptions
    \/ foundIn \/ notFoundIn \/ foundInEither \/ foundInAll
    \/ notFoundInEither \/ notFoundInAll

SelectionSpec == Init /\ [][SelectionNext]_vars

\* calls that add constraints: three named methods and where
ConstraintNext == equalTo \/ exists \/ contains \/ Where

ConstraintSpec == Init /\ [][ConstraintNext]_vars

\* a query embedded in another and the calls made on either afterwards
SubqueryNext == foundIn \/ ToSubquery \/ equalTo \/ Include

SubquerySpec == Init /\ [][SubqueryNext]_vars

(***************************************************************************)
(* toQueryOptions among the calls that change what it reads, on queries    *)
(* that earlier select, equalTo and skip calls have left in either of two  *)
(* states each.                                                            *)
(***************************************************************************)
OptionsInit ==
    /\ selection \in {[q \in Queries |-> <<>>],
                       [q \in Queries |-> IF q = 1 THEN <<"title">> ELSE <<>>]}
    /\ included = [q \in Queries |-> <<>>]
    /\ constraints \in {[q \in Queries |-> <<>>],
                         [q \in Queries |->
                             IF q = 2 THEN set(<<>>, "title", "EqualTo", Str("a")).cm
                             ELSE <<>>]}
    /\ sorting = <<>>
    /\ skipped \in {[q \in Queries |-> Num(DefaultsQuerySkip, 1)],
                     [q \in Queries |->
                         IF q = 1 THEN Num(10, 1) ELSE Num(DefaultsQuerySkip, 1)]}
    /\ limitation = [q \in Queries |-> Num(DefaultsQueryLimit, 1)]
    /\ calls = 0
    /\ last = [op |-> "new", error |-> NoError]
    /\ sent = <<>>
    /\ payload = <<>>
    /\ clock = 1
    /\ Undecorated

OptionsNext == ToQueryOptions \/ Include \/ SortBy

OptionsSpec == OptionsInit /\ [][OptionsNext]_vars

(***************************************************************************)
(* MySQLDatabaseAdapter.mapRows. A raw row is the list of its (column,     *)
(* value) pairs in the order Object.entries yields them, no column twice;  *)
(* a nested structure is [object |-> <its (column, value) pairs>].         *)
(***************************************************************************)
MaxColumns == 3
RowAliases == {"author", "editor"}
RowRelationColumns == {InternalId, "name"}
RowColumns == {InternalId, "name", "author", "author.id", "author.name", "editor.id"}
RowValues == {Number(1), Number(2)}
\* Relation.isUsedBy(key): the key is alias.column
RelationIsUsedBy(key) ==
    \E a \in RowAliases, c \in RowRelationColumns : key = a \o "." \o c
\* Relation.parseKey(key): the alias and the column
RelationParseKey(key) ==
    CHOOSE p \in RowAliases \X RowRelationColumns : key = p[1] \o "." \o p[2]
\* { ...value }: the own enumerable properties of value, none for a number
\* or for undefined
spread(keys, name) ==
    IF KeyMapHas(keys, name) /\ "object" \in DOMAIN KeyMapGet(keys, name)
    THEN KeyMapGet(keys, name).object ELSE <<>>
\* a loop body that starts every relation structure anew
mapRowsEntryWithoutSpread(keys, key, value) ==
    IF RelationIsUsedBy(key)
    THEN KeyMapSet(keys, RelationParseKey(key)[1],
                   [object |-> <<<<RelationParseKey(key)[2], value>>>>])
    ELSE KeyMapSet(keys, key, value)
\* the body of the loop of mapRows on one entry of the row
mapRowsEntry(keys, key, value) ==
    IF RelationIsUsedBy(key)
    THEN KeyMapSet(keys, RelationParseKey(key)[1],
                   [object |-> KeyMapSet(spread(keys, RelationParseKey(key)[1]),
                                         RelationParseKey(key)[2], value)])
    ELSE KeyMapSet(keys, key, value)
RECURSIVE mapRowsFrom(_, _)
mapRowsFrom(keys, row) ==
    IF row = <<>> THEN keys
    ELSE mapRowsFrom(mapRowsEntry(keys, row[1][1], row[1][2]), Tail(row))
mapRows(row) == mapRowsFrom(<<>>, row)

\* the raw rows of at most MaxColumns columns
RowInputs ==
    UNION {{row \in [1..n -> RowColumns \X RowValues] :
               \A i, j \in 1..n : row[i][1] = row[j][1] => i = j} : n \in 0..MaxColumns}

RowInit ==
    /\ selection = [q \in Queries |-> <<>>]
    /\ included = [q \in Queries |-> <<>>]
    /\ constraints = [q \in Queries |-> <<>>]
    /\ sorting = <<>>
    /\ skipped = [q \in Queries |-> Num(DefaultsQuerySkip, 1)]
    /\ limitation = [q \in Queries |-> Num(DefaultsQueryLimit, 1)]
    /\ calls = 0
    /\ last \in {[op |-> "row", row |-> row, error |-> NoError] : row \in RowInputs}
    /\ sent = <<>>
    /\ payload = <<>>
    /\ clock = 1
    /\ Undecorated

\* mapRows applied to the row
MapRows ==
    /\ last.op = "row"
    /\ last' = [op |-> "mapRows", row |-> last.row, result |-> mapRows(last.row),
                error |-> NoError]
    /\ UNCHANGED <<builderVars, modifierVars, sent, payload, clock>>

RowSpec == RowInit /\ [][MapRows]_vars

(***************************************************************************)
(* keys/modifiers/min: the accessor min(limit) lays over the accessor the  *)
(* key decorator defined for a numeric key, which stores the value it is   *)
(* given in the instance and returns it.                                   *)
(***************************************************************************)
MaxNumber == 2
\* the numbers a key is assigned and the limits a key is decorated with
Numbers == (0 - MaxNumber)..MaxNumber
\* new Error(...): the error the setter throws bears no code
PlainError == "Error"
\* typeof value === 'number'
IsNumber(value) == "number" \in DOMAIN value
\* descriptor.set.apply(this, [value]) and descriptor.get.apply(this)
descriptorSet(held, value) == value
descriptorGet(held) == held
\* x || undefined
OrUndefined(x) == IF IsNumber(x) /\ x.number = 0 THEN Undefined ELSE x

\* set(value) on an instance that holds `held`
minSet(limit, held, value) ==
    IF IsNumber(value) /\ value.number < limit
    THEN [error |-> PlainError, held |-> held]
    ELSE [error |-> NoError, held |-> descriptorSet(held, value)]
\* get() on an instance that holds `held`
minGet(held) == OrUndefined(descriptorGet(held))

MinInit ==
    /\ selection = [q \in Queries |-> <<>>]
    /\ included = [q \in Queries |-> <<>>]
    /\ constraints = [q \in Queries |-> <<>>]
    /\ sorting = <<>>
    /\ skipped = [q \in Queries |-> Num(DefaultsQuerySkip, 1)]
    /\ limitation = [q \in Queries |-> Num(DefaultsQueryLimit, 1)]
    /\ calls = 0
    /\ last = [op |-> "new", error |-> NoError]
    /\ sent = <<>>
    /\ payload = <<>>
    /\ clock = 1
    /\ minLimit \in Numbers
    /\ numberKey = [c \in Instances |-> Undefined]

\* instance.key = n
SetKey ==
    \E c \in Instances, n \in Numbers :
        LET r == minSet(minLimit, numberKey[c], NumberValue(n))
        IN  /\ numberKey' = [numberKey EXCEPT ![c] = r.held]
            /\ last' = [op |-> "set", instance |-> c, value |-> NumberValue(n),
                        error |-> r.error]
            /\ UNCHANGED <<builderVars, adapterVars, minLimit>>

\* instance.key
GetKey ==
    \E c \in Instances :
        /\ last' = [op |-> "get", instance |-> c, result |-> minGet(numberKey[c]),
                    error |-> NoError]
        /\ UNCHANGED <<builderVars, adapterVars, modifierVars>>

MinNext == SetKey \/ GetKey

MinSpec == MinInit /\ [][MinNext]_vars

(***************************************************************************)
(* Properties.                                                             *)
(***************************************************************************)
\* the tokens of every statement the last adapter call sent
SentTokens == Flatten([i \in DOMAIN sent |-> sent[i].script])
\* the members of s that satisfy P, in order
Filter(s, P(_)) == SelectSeq(s, P)
\* the number of places where the token sequence part occurs in text
Occurrences(text, part) ==
    Cardinality({i \in 1..(Len(text) - Len(part) + 1) :
                    SubSeq(text, i, i + Len(part) - 1) = part})

\* what is written into a statement as it is and was not given by the caller
\* as text: the package version, and skip and limit, which are numbers
IsOwnText(x) == x = version \/ "num" \in DOMAIN x

\* C1: in every statement sent to the transport, every value the caller gave
\* (a constraint value, a payload value, the id of update and destroy)
\* appears as the result of an escaping function, never as it was given.
C1_EveryValueEscaped ==
    \A i \in DOMAIN SentTokens :
        IsText(SentTokens[i]) => IsOwnText(SentTokens[i].text)

\* C5: a find whose constraint map holds an entry of a kind the compiler has
\* no entry for fails with ForbiddenOperation and hands nothing to the
\* transport.
HasUnknownKind(cm) ==
    \E i \in DOMAIN ConstraintMapEntries(cm) :
        ConstraintMapEntries(cm)[i].constraint \notin CompilerKinds
C5_UnknownKindForbidden ==
    (last.op = "find" /\ HasUnknownKind(last.constraints))
        => (last.error = ForbiddenOperation /\ sent = <<>>)
\* a find given a known kind and an unknown kind has been made
C5_Witness ==
    /\ last.op = "find"
    /\ HasUnknownKind(last.constraints)
    /\ \E i \in DOMAIN ConstraintMapEntries(last.constraints) :
           ConstraintMapEntries(last.constraints)[i].constraint = "EqualTo"
\* a find of known kinds only reaches the transport
C5_SentWitness == last.op = "find" /\ last.constraints # <<>> /\ Len(sent) = 1

\* The fragment parseConstraint returned for the entry in `last`.
Fragment == sent[1].script
Compiled == last.op = "parseConstraint" /\ last.constraint \in CompilerKinds
CollectionKinds == {"ContainedIn", "NotContainedIn", "ContainedInOrDoesNotExist"}
ContainsGroupKinds == {"ContainsEither", "ContainsAll"}
SubqueryKinds == {"FoundIn", "NotFoundIn"}
SubqueryGroupKinds == {"FoundInEither", "FoundInAll", "NotFoundInEither"}
\* the values a constraint lists
Listed(constraint, value) ==
    IF constraint \in CollectionKinds \cup ContainsGroupKinds \cup SubqueryGroupKinds
    THEN value.array ELSE <<value>>
\* what a kind hands to the value-escaping function for a listed value
EscapedForm(constraint, v) ==
    CASE constraint = "StartsWith" -> Str(v.data \o "%")
      [] constraint = "EndsWith" -> Str("%" \o v.data)
      [] constraint \in {"Contains"} \cup ContainsGroupKinds -> Str("%" \o v.data \o "%")
      [] OTHER -> v
\* the escaped values a fragment shows for the listed values, in order
EscapedListed(constraint, value) ==
    IF constraint \in SubqueryKinds \cup SubqueryGroupKinds THEN <<>>
    ELSE [i \in DOMAIN Listed(constraint, value) |->
             clientEscape(EscapedForm(constraint, Listed(constraint, value)[i]))]
\* the compiled SELECT of every sub-query a constraint lists, one after another
Embedded(constraint, value) ==
    IF constraint \in SubqueryKinds \cup SubqueryGroupKinds
    THEN Flatten([i \in DOMAIN Listed(constraint, value) |->
                     subqueryEscape(Listed(constraint, value)[i])])
    ELSE <<>>
\* how often the escaped key stands in the fragment outside its sub-queries
KeyOccurrences ==
    Occurrences(Fragment, escapeKey(last.key, FALSE))
    - Occurrences(Embedded(last.constraint, last.value), escapeKey(last.key, FALSE))

\* C8 as stated: for every kind of the compiler's table the fragment of one
\* constraint holds the escaped key exactly once and every listed value,
\* escaped, exactly once.
C8_KeyOnceValuesOnce ==
    Compiled =>
        /\ Occurrences(Fragment, escapeKey(last.key, FALSE)) = 1
        /\ Filter(Fragment, IsEscapedValue) = EscapedListed(last.constraint, last.value)

\* C8 amended: the fragment holds, outside the sub-queries it embeds, the
\* escaped key once (twice for containedInOrDoesNotExist, once per listed
\* value or sub-query for the either/all kinds) and each listed value,
\* escaped, once and in order (none for exists); a listed sub-query is
\* embedded once as its compiled SELECT.
KeyCount(constraint, value) ==
    CASE constraint = "ContainedInOrDoesNotExist" -> 2
      [] constraint \in ContainsGroupKinds \cup SubqueryGroupKinds -> Len(value.array)
      [] OTHER -> 1
C8_KeyAndValuesPerKind ==
    Compiled =>
        /\ KeyOccurrences = KeyCount(last.constraint, last.value)
        /\ Filter(Fragment, IsEscapedValue) =
              (IF last.constraint = "Exists" THEN <<>>
               ELSE EscapedListed(last.constraint, last.value))
              \o Filter(Embedded(last.constraint, last.value), IsEscapedValue)
        /\ \A i \in DOMAIN Listed(last.constraint, last.value) :
              last.constraint \in SubqueryKinds \cup SubqueryGroupKinds =>
                  Occurrences(Fragment,
                              subqueryEscape(Listed(last.constraint, last.value)[i]))
                      = Len(Listed(last.constraint, last.value))
\* a containedInOrDoesNotExist of two values has been compiled
C8_Witness ==
    /\ Compiled
    /\ last.constraint = "ContainedInOrDoesNotExist"
    /\ Len(last.value.array) = 2
    /\ KeyOccurrences = 2

\* The keys of the payload that a write must leave alone keep their value
\* and their place, and nothing but the stamps is added.
OthersKept(stamps) ==
    /\ \A i \in DOMAIN last.keys :
           last.keys[i][1] \notin stamps => (i \in DOMAIN payload /\ payload[i] = last.keys[i])
    /\ \A i \in DOMAIN payload :
           payload[i][1] \notin stamps => (i \in DOMAIN last.keys /\ payload[i] = last.keys[i])
Stamped(key) == KeyMapHas(payload, key) /\ KeyMapGet(payload, key) = last.now
\* the statement sent writes the pairs of the payload, in its order
SentPayload ==
    /\ Len(sent) = 1
    /\ Filter(sent[1].script, IsEscapedValue)
          = [i \in DOMAIN payload |-> clientEscape(payload[i][2])]
    /\ Filter(sent[1].script, LAMBDA t : IsEscapedKey(t) /\ t.escapeKey \notin Sources)
          = [i \in DOMAIN payload |-> clientEscapeKey(payload[i][1], FALSE)]
             \o (IF last.op = "create" THEN <<>> ELSE <<clientEscapeKey(InternalId, FALSE)>>)

\* C9: create stamps created_at and updated_at with one instant, update
\* adds or changes only updated_at, destroy sets updated_at and deleted_at
\* to one instant; every other key of the payload keeps value and place.
C9_TimestampsAndFrame ==
    /\ last.op = "create" =>
          /\ Stamped(CreatedAt) /\ Stamped(UpdatedAt)
          /\ KeyMapGet(payload, CreatedAt) = KeyMapGet(payload, UpdatedAt)
          /\ OthersKept({CreatedAt, UpdatedAt}) /\ SentPayload
    /\ last.op = "update" =>
          Stamped(UpdatedAt) /\ OthersKept({UpdatedAt}) /\ SentPayload
    /\ last.op = "destroy" =>
          /\ Stamped(UpdatedAt) /\ Stamped(DeletedAt)
          /\ KeyMapGet(payload, UpdatedAt) = KeyMapGet(payload, DeletedAt)
          /\ OthersKept({UpdatedAt, DeletedAt}) /\ SentPayload
\* a payload that held an older deleted_at before other keys was destroyed
C9_Witness ==
    /\ last.op = "destroy"
    /\ Len(last.keys) >= 3
    /\ last.keys[1][1] = DeletedAt
    /\ last.keys[1][2] # last.now
    /\ payload[1] = <<DeletedAt, last.now>>

\* C10: no statement sent removes a row; destroy sends exactly one statement,
\* in write mode, which is the UPDATE ... SET ... WHERE id = <id> that update
\* sends for the same payload and sets deleted_at.
StatementHeads == {Lit("SELECT "), Lit("INSERT INTO "), Lit("UPDATE ")}
C10_DestroyIsLogical ==
    /\ \A i \in DOMAIN sent : sent[i].script[1] \in StatementHeads
    /\ last.op = "destroy" =>
          /\ Len(sent) = 1
          /\ sent[1].mode = DatabaseWrite
          /\ sent[1].script = updateScript(last.source, payload, last.id)
          /\ sent[1].script[1] = Lit("UPDATE ")
          /\ Occurrences(sent[1].script,
                         <<clientEscapeKey(DeletedAt, FALSE), Lit(" = "),
                           clientEscape(last.now)>>) = 1
\* a destroy has followed another write on the same KeyMap
C10_Witness ==
    /\ last.op = "destroy"
    /\ KeyMapHas(last.keys, CreatedAt)
    /\ KeyMapHas(last.keys, "title")
    /\ Len(sent) = 1

(***************************************************************************)
(* Properties of the builder.                                              *)
(***************************************************************************)
NamedConstraintOps ==
    {"equalTo", "notEqualTo", "greaterThan", "greaterThanOrEqualTo", "lessThan",
     "lessThanOrEqualTo", "exists", "doesNotExist", "containedIn", "notContainedIn",
     "containedInOrDoesNotExist", "startsWith", "endsWith", "contains",
     "containsEither", "containsAll", "foundIn", "notFoundIn", "foundInEither",
     "foundInAll", "notFoundInEither", "notFoundInAll"}
\* the call recorded in l named a key the class does not declare
UndeclaredKeyGiven(l) ==
    \/ l.op \in NamedConstraintOps /\ ~ClassHas(l.key)
    \/ l.op = "where" /\ \E i \in DOMAIN l.entries : ~ClassHas(l.entries[i].key)

\* C2: a constraint method or where given an undeclared key fails with the
\* invalid-key error and leaves every constraint map as it was.
C2_UndeclaredKeyInvalidKey ==
    [][(calls' = calls + 1 /\ UndeclaredKeyGiven(last'))
          => (last'.error = InvalidObjectKey /\ constraints' = constraints)]_vars

\* C3: select with no key at all, select() or select([]), fails with the
\* missing-configuration error and leaves the selection as it was.
C3_EmptySelectFails ==
    [][(calls' = calls + 1 /\ last'.op = "select" /\ keyListOf(last'.keys) = <<>>)
          => (last'.error = MissingConfiguration /\ selection' = selection)]_vars

\* C4: skip and limit refuse every value that is not a non-negative integer
\* and leave the stored value alone, so skip and limit of every query are
\* non-negative integers.
NonNegativeInteger(value) == value.num >= 0 /\ IsInteger(value)
C4_SkipLimitIntegers ==
    /\ \A q \in Queries :
           NonNegativeInteger(skipped[q]) /\ NonNegativeInteger(limitation[q])
    /\ (last.op \in {"skip", "limit"} /\ ~NonNegativeInteger(last.value))
           => last.error = ValidationError

\* C6: in every state of the builder the query options of a query select,
\* when nothing was selected, the identifier, the declared keys and the three
\* timestamps in that order, and else the selected keys; the included
\* relation keys follow in both cases.
DefaultSelection == <<InternalId, "title", "status", CreatedAt, UpdatedAt, DeletedAt>>
OwnSelection(q) == IF selection[q] = <<>> THEN DefaultSelection ELSE selection[q]
C6_DefaultSelectionThenIncluded ==
    /\ \A q \in Queries :
          /\ getSelection(q) = OwnSelection(q) \o included[q]
          /\ toQueryOptions(q).columns
                = [i \in DOMAIN OwnSelection(q) |->
                      <<Qualified(ClassName, OwnSelection(q)[i]), OwnSelection(q)[i]>>]
                  \o getColumnsFrom(ClassName, included[q])
    /\ last.op = "toQueryOptions" =>
          /\ last.selection = OwnSelection(last.q) \o included[last.q]
          /\ last.result = toQueryOptions(last.q)
\* the options of a query with a relation included and nothing selected
C6_Witness ==
    /\ last.op = "toQueryOptions"
    /\ selection[last.q] = <<>>
    /\ included[last.q] = <<"author">>
    /\ Len(last.result.columns) = Len(DefaultSelection) + Len(RelationColumns)

\* the select list of a compiled SELECT: the tokens between SELECT and FROM
SelectList(tokens) ==
    LET from == CHOOSE i \in DOMAIN tokens :
                    /\ tokens[i] = Lit(" FROM ")
                    /\ \A j \in 1..(i - 1) : tokens[j] # Lit(" FROM ")
    IN  SubSeq(tokens, 2, from - 1)
\* the constraint a successful constraint call has just added to query q
Added(q, key) ==
    LET entries == toQueryOptions(q).constraints
        entry == entries[CHOOSE i \in DOMAIN entries :
                             entries[i].key = QualifiedConstraintKey(ClassName, key)]
    IN  [key |-> entry.key, last |-> entry.constraints[Len(entry.constraints)]]

\* C7: after foundIn(x, y, q) the predicate compiled for x is
\* "x IN (<the SELECT of q>)" and that SELECT lists exactly one column, y.
C7_SubqueryHasOneColumn ==
    (last.op = "foundIn" /\ last.error = NoError) =>
        LET y == last.items[1].select
            added == Added(last.q, last.key)
            sub == subqueryEscape(added.last.value)
        IN  /\ added.last.constraint = "FoundIn"
            /\ added.last.value = QueryRef(last.items[1].query)
            /\ parseConstraint(added.key, added.last.constraint, added.last.value)
                  = escapeKey(added.key, FALSE) \o <<Lit(" IN (")>> \o sub \o <<Lit(")")>>
            /\ sub[1] = Lit("SELECT ")
            /\ SelectList(sub) = <<clientEscapeKey(Qualified(ClassName, y), FALSE),
                                   Lit(" AS "), clientEscapeKey(y, TRUE)>>

\* the calls that are given another query as argument
SubqueryOps ==
    {"foundIn", "notFoundIn", "foundInEither", "foundInAll", "notFoundInEither",
     "notFoundInAll"}
SortOps == {"sortBy", "sortByDescending"}

\* C11: a builder call on one query that is not given another query as
\* argument, sortBy and sortByDescending in particular, leaves the
\* QueryOptions of every other query as they were.
C11_CallsOnOneQueryLeaveOthers ==
    [][(calls' = calls + 1 /\ last'.op \notin SubqueryOps)
          => \A b \in Queries \ {last'.q} : toQueryOptions(b)' = toQueryOptions(b)]_vars

\* C12: toQueryOptions leaves selection, included relations, constraints,
\* sorting, skip and limit as they were, returns the options of the state it
\* was called in, and returns what the call before it returned when that was
\* toQueryOptions on the same query.
C12_ToQueryOptionsIsPure ==
    [][(calls' = calls + 1 /\ last'.op = "toQueryOptions")
          => /\ UNCHANGED <<selection, included, constraints, sorting, skipped, limitation>>
             /\ last'.result = toQueryOptions(last'.q)
             /\ (last.op = "toQueryOptions" /\ last.q = last'.q)
                   => last'.result = last.result]_vars
\* toQueryOptions was called twice in a row on a query with a selection and
\* a skip
C12_Witness ==
    /\ last.op = "toQueryOptions"
    /\ last.after = <<"toQueryOptions", last.q>>
    /\ selection[last.q] # <<>>
    /\ skipped[last.q] # Num(DefaultsQuerySkip, 1)
    /\ last.result.columns = <<<<"Post.title", "title">>>>

(***************************************************************************)
(* Properties of the row mapper.                                           *)
(***************************************************************************)
UnprefixedColumns(row) == {row[i][1] : i \in {j \in DOMAIN row : ~RelationIsUsedBy(row[j][1])}}
RowAliasesOf(row) ==
    {RelationParseKey(row[i][1])[1] : i \in {j \in DOMAIN row : RelationIsUsedBy(row[j][1])}}
\* the (column, value) pairs the row holds under the alias
ColumnsUnder(row, alias) ==
    {<<RelationParseKey(row[i][1])[2], row[i][2]>> :
        i \in {j \in DOMAIN row : /\ RelationIsUsedBy(row[j][1])
                                  /\ RelationParseKey(row[j][1])[1] = alias}}
\* a mapped row as a mapping, the order of its entries left aside
AsMapping(keys) ==
    {<<keys[i][1], IF "object" \in DOMAIN keys[i][2]
                   THEN [object |-> Range(keys[i][2].object)] ELSE keys[i][2]>> :
        i \in DOMAIN keys}
RowPermutations(row) ==
    {[i \in DOMAIN row |-> row[f[i]]] : f \in Permutations(DOMAIN row)}
Grouped(row, result) ==
    /\ \A i \in DOMAIN row :
          ~RelationIsUsedBy(row[i][1]) =>
              (KeyMapHas(result, row[i][1]) /\ KeyMapGet(result, row[i][1]) = row[i][2])
    /\ \A a \in RowAliasesOf(row) :
          /\ KeyMapHas(result, a)
          /\ "object" \in DOMAIN KeyMapGet(result, a)
          /\ Range(KeyMapGet(result, a).object) = ColumnsUnder(row, a)
          /\ Len(KeyMapGet(result, a).object) = Cardinality(ColumnsUnder(row, a))
    /\ Len(result) = Cardinality(UnprefixedColumns(row)) + Cardinality(RowAliasesOf(row))
    /\ \A other \in RowPermutations(row) : AsMapping(mapRows(other)) = AsMapping(result)

\* C13 as stated: every raw row is mapped to its unprefixed columns at the
\* top level and one nested structure per alias, one top-level entry for
\* each, whatever the order of the columns.
C13_RowsGrouped == last.op = "mapRows" => Grouped(last.row, last.result)

\* C13 amended: the same for every raw row none of whose unprefixed columns
\* bears the name of an alias of the row.
C13_RowsGroupedUnlessNamesCollide ==
    (last.op = "mapRows" /\ UnprefixedColumns(last.row) \cap RowAliasesOf(last.row) = {})
        => Grouped(last.row, last.result)
\* a row whose two author columns stand on either side of an unprefixed one
C13_Witness ==
    /\ last.op = "mapRows"
    /\ Len(last.row) = 3
    /\ last.row[1][1] = "author.id"
    /\ last.row[2][1] = InternalId
    /\ last.row[3][1] = "author.name"
    /\ Len(last.result) = 2

ContainsOps == {"contains", "containsEither", "containsAll"}

\* C14: a contains, containsEither or containsAll call given several keys
\* stores one entry under the joined key list, and that entry compiles into
\* an OR-group of the predicates of the kind on each key by itself.
C14_SeveralKeysCompileToOrGroup ==
    (last.op \in ContainsOps /\ last.error = NoError /\ CompoundKeyIsUsedBy(last.key)) =>
        LET added == Added(last.q, last.key)
            keyList == CompoundKeyFrom(last.key)
        IN  /\ KeyMapHas([i \in DOMAIN constraints[last.q] |->
                             <<constraints[last.q][i].key, i>>], last.key)
            /\ added.last.constraint = last.constraint
            /\ parseConstraint(added.key, added.last.constraint, added.last.value)
                  = Group([i \in DOMAIN keyList |->
                              constraintsTable(last.constraint,
                                  escapeKey(Qualified(ClassName, keyList[i]), FALSE),
                                  added.last.value)], " OR ")

\* C15: a wrapper is given to the transport's escape only after the escaping
\* functions were set on it, in a constraint as in a payload, and the
\* wrappers of a payload bear none before the statement is built.
C15_WrappersBoundBeforeEscape ==
    /\ \A i \in DOMAIN SentTokens :
          (IsEscapedValue(SentTokens[i]) /\ IsWrapper(SentTokens[i].escape))
              => SentTokens[i].escape.bound
    /\ \A i \in DOMAIN payload : IsWrapper(payload[i][2]) => ~payload[i][2].bound

\* the statement find sends for the options of query q
ScriptOf(q) ==
    LET o == toQueryOptions(q)
    IN  findScript(o.source, o.columns, o.relations, o.constraints, o.sorting,
                   o.skipped, o.limitation)
\* the ORDER BY list of the statement of q
OrderByOf(q) == getSortClause(toQueryOptions(q).sorting)
\* the items of the ORDER BY of a sort call: column DESC for a key of
\* sortByDescending and for a key with a leading '-', column ASC for others
SortItemsOf(op, keys) ==
    [i \in DOMAIN keyListOf(keys) |->
        LET key == keyListOf(keys)[i]
        IN  IF op = "sortByDescending" THEN escapeKey(key, FALSE) \o <<Lit(" DESC")>>
            ELSE IF rawKey(key) # key THEN escapeKey(rawKey(key), FALSE) \o <<Lit(" DESC")>>
            ELSE escapeKey(key, FALSE) \o <<Lit(" ASC")>>]
\* an ORDER BY list with more items after it
Extended(list, items) ==
    IF list = <<>> \/ items = <<>> THEN list \o Join(items, ", ")
    ELSE list \o <<Lit(", ")>> \o Join(items, ", ")
\* the end of a statement that skips nothing
LimitFromStart(q) ==
    <<Lit(" LIMIT "), Text(Num(0, 1)), Lit(", "), Text(limitation[q]),
      Lit("; -- Warp Server "), Text(version)>>

\* C16: the ORDER BY of a query is empty at first, a successful sortBy or
\* sortByDescending on the query adds its keys at the end in call order
\* (DESC for sortByDescending and for a key with a leading '-', ASC for the
\* others), no other call changes it, and while skip is the default the
\* statement ends in LIMIT 0, <limit>.
C16_OrderByInCallOrder ==
    /\ [](calls = 0 => \A q \in Queries : OrderByOf(q) = <<>>)
    /\ [](\A q \in Queries :
             skipped[q] = Num(DefaultsQuerySkip, 1) =>
                 SubSeq(ScriptOf(q), Len(ScriptOf(q)) - 5, Len(ScriptOf(q)))
                     = LimitFromStart(q))
    /\ [][calls' = calls + 1 =>
            \A q \in Queries :
               /\ (last'.op \in SortOps /\ last'.q = q /\ last'.error = NoError)
                     => OrderByOf(q)' = Extended(OrderByOf(q),
                                                 SortItemsOf(last'.op, last'.keys))
               /\ (last'.op \notin SortOps \/ last'.q # q)
                     => OrderByOf(q)' = OrderByOf(q)]_vars

(***************************************************************************)
(* Properties of the constraint map.                                       *)
(***************************************************************************)
EntriesOf(q) == ConstraintMapEntries(constraints[q])
\* the WHERE clause of the statement of q
WhereOf(q) ==
    LET clause == getFindClause(toQueryOptions(q))
        at == CHOOSE i \in DOMAIN clause :
                 /\ clause[i] = Lit(" WHERE ")
                 /\ \A j \in 1..(i - 1) : clause[j] # Lit(" WHERE ")
    IN  SubSeq(clause, at + 1, Len(clause))
\* the predicates of the entries of q, as the compiler writes each
PredicatesOf(q) ==
    LET entries == ConstraintMapEntries(toQueryOptions(q).constraints)
    IN  [i \in DOMAIN entries |->
            parseConstraint(entries[i].key, entries[i].constraint, entries[i].value)]
\* every entry of q is of a kind the compiler has an entry for
Compilable(q) == \A i \in DOMAIN EntriesOf(q) : EntriesOf(q)[i].constraint \in CompilerKinds
\* every key of q keeps its place and its entries, new ones coming after
NoneLost(q) ==
    /\ Len(constraints'[q]) >= Len(constraints[q])
    /\ \A i \in DOMAIN constraints[q] :
          /\ constraints'[q][i].key = constraints[q][i].key
          /\ SubSeq(constraints'[q][i].constraints, 1, Len(constraints[q][i].constraints))
                = constraints[q][i].constraints
Succeeded(l, q) ==
    l.op \in NamedConstraintOps \cup {"where"} /\ l.q = q /\ l.error = NoError

\* C17 as stated: every successful constraint-adding call adds one entry to
\* the map of its query and loses none, and the WHERE clause of the query
\* holds one predicate for each entry, joined with AND.
C17_OneEntryPerCall ==
    /\ [](\A q \in Queries :
             /\ ~Throws(WhereOf(q))
             /\ WhereOf(q) = Join(PredicatesOf(q), " AND ")
             /\ Len(PredicatesOf(q)) = Len(EntriesOf(q)))
    /\ [][calls' = calls + 1 =>
            \A q \in Queries :
               Succeeded(last', q) =>
                  (Len(EntriesOf(q))' = Len(EntriesOf(q)) + 1 /\ NoneLost(q))]_vars

\* C17 amended: a successful named constraint method adds one entry, a
\* successful where one entry for each (key, kind) pair it was given, none is
\* lost and no other query changes; when every kind stored has a compiler
\* entry, the WHERE clause holds one predicate for each entry, joined with AND.
C17_OneEntryPerPair ==
    /\ [](\A q \in Queries :
             /\ Len(PredicatesOf(q)) = Len(EntriesOf(q))
             /\ Compilable(q) =>
                   /\ ~Throws(WhereOf(q))
                   /\ WhereOf(q) = Join(PredicatesOf(q), " AND ")
                   /\ Count(WhereOf(q), LAMBDA t : t = Lit(" AND "))
                         = IF EntriesOf(q) = <<>> THEN 0 ELSE Len(EntriesOf(q)) - 1)
    /\ [][calls' = calls + 1 =>
            \A q \in Queries :
               /\ Succeeded(last', q) =>
                     /\ Len(EntriesOf(q))' = Len(EntriesOf(q))
                           + (IF last'.op = "where" THEN Len(last'.entries) ELSE 1)
                     /\ NoneLost(q)
               /\ last'.q # q => constraints'[q] = constraints[q]]_vars
\* the same constraint was added twice to one query
C17_Witness ==
    \E q \in Queries :
        /\ calls = 2
        /\ Len(EntriesOf(q)) = 2
        /\ EntriesOf(q)[1] = EntriesOf(q)[2]
        /\ Count(WhereOf(q), LAMBDA t : t = Lit(" AND ")) = 1

\* C18: no equalTo or notEqualTo entry of any constraint map holds a boolean,
\* whether it was stored through equalTo, notEqualTo or where.
C18_EqualityHoldsNoBoolean ==
    \A q \in Queries : \A i \in DOMAIN EntriesOf(q) :
        EntriesOf(q)[i].constraint \in {"EqualTo", "NotEqualTo"}
            => ~(IsScalar(EntriesOf(q)[i].value) /\ EntriesOf(q)[i].value.type = "boolean")

\* C19: the kind a successful named constraint method has stored has an
\* entry in the compiler's table, and the compiler does not refuse the
\* stored constraint as of a kind it does not know.
C19_NamedKindsCompile ==
    (last.op \in NamedConstraintOps /\ last.error = NoError) =>
        LET added == Added(last.q, last.key)
        IN  /\ last.constraint \in CompilerKinds
            /\ added.last.constraint = last.constraint
            /\ parseConstraint(added.key, added.last.constraint, added.last.value)
                  # <<Throw(ForbiddenOperation)>>

\* C20: a builder call that fails leaves selection, included relations,
\* constraints, sorting, skip and limit of every query as they were.
C20_FailedCallChangesNothing ==
    [][(calls' = calls + 1 /\ last'.error # NoError)
          => UNCHANGED <<selection, included, constraints, sorting, skipped, limitation>>]_vars


\* what can follow a clause keyword when the clause is empty: the keyword of
\* the next clause, or the end of the sub-query the clause belongs to
ClauseEnds == {Lit(" ORDER BY "), Lit(" LIMIT "), Lit(")")}
\* the keyword at place i of the tokens is followed by something of its own
FollowedByItem(tokens, keyword) ==
    \A i \in DOMAIN tokens :
        tokens[i] = Lit(keyword) =>
            (i < Len(tokens) /\ tokens[i + 1] \notin ClauseEnds)

\* C21: the statement find sends holds no empty clause, also when the
\* constraint map or the sorting list is empty: WHERE is followed by at
\* least one predicate and ORDER BY by at least one sort term.
C21_NoEmptyClause ==
    last.op = "find" =>
        /\ FollowedByItem(SentTokens, " WHERE ")
        /\ FollowedByItem(SentTokens, " ORDER BY ")


(***************************************************************************)
(* Properties of a query embedded in another.                              *)
(***************************************************************************)
\* the places, among the entries of query o, of the FoundIn entries whose
\* value is query s
HeldAt(o, s) ==
    {i \in DOMAIN EntriesOf(o) :
        /\ EntriesOf(o)[i].constraint = "FoundIn"
        /\ EntriesOf(o)[i].value = QueryRef(s)}
\* the item of a select list that projects key z
ColumnOf(z) ==
    <<clientEscapeKey(Qualified(ClassName, z), FALSE), Lit(" AS "), clientEscapeKey(z, TRUE)>>
\* the SELECT query s is embedded as
SubqueryOf(s) == subqueryEscape(QueryRef(s))
\* the first item of its select list, which follows the keyword SELECT
ProjectionOf(s) == SubSeq(SubqueryOf(s), 2, 4)
\* the text ends with the part
EndsWith(text, part) ==
    /\ Len(text) >= Len(part)
    /\ SubSeq(text, Len(text) - Len(part) + 1, Len(text)) = part
\* call l has narrowed query s to key z: s.toSubquery(z), or foundIn given s
\* with select key z
NarrowedTo(l, s, z) ==
    /\ l.error = NoError
    /\ \/ l.op = "toSubquery" /\ l.q = s /\ l.key = z
       \/ l.op = "foundIn" /\ l.items = <<[select |-> z, query |-> s]>>
\* call l has added a constraint of its own to query s
ConstrainedBy(l, s) == l.op = "equalTo" /\ l.q = s /\ l.error = NoError

\* C22: a query given to foundIn is held by reference and compiled with the
\* outer query: the predicate of the entry embeds the SELECT of the query as
\* it is now; a later call that narrows the query to key z makes every outer
\* query embed it projected to z, not to the key y it was given with, and a
\* later constraint on the query appears in the WHERE clause of the outer one.
C22_SubqueryResolvedAtCompile ==
    /\ [](\A o, s \in Queries : \A i \in HeldAt(o, s) :
             PredicatesOf(o)[i]
                 = escapeKey(Qualified(ClassName, EntriesOf(o)[i].key), FALSE)
                   \o <<Lit(" IN (")>> \o SubqueryOf(s) \o <<Lit(")")>>)
    /\ [](\A s \in Queries : \A z \in SubqueryKeyInputs :
             NarrowedTo(last, s, z) => ProjectionOf(s) = ColumnOf(z))
    /\ [](\A s \in Queries :
             ConstrainedBy(last, s) =>
                 EndsWith(SubqueryOf(s),
                          parseConstraint(Added(s, last.key).key, "EqualTo",
                                          Added(s, last.key).last.value)))
    /\ [][\A o, s \in Queries : \A z \in SubqueryKeyInputs :
            (/\ calls' = calls + 1 /\ HeldAt(o, s) # {} /\ NarrowedTo(last', s, z)
             /\ selection[s] # <<>> /\ selection[s] # <<z>>) =>
                /\ ProjectionOf(s) = ColumnOf(selection[s][1])
                /\ SubqueryOf(s)' # SubqueryOf(s)]_vars
    /\ [][\A o, s \in Queries :
            (calls' = calls + 1 /\ HeldAt(o, s) # {} /\ ConstrainedBy(last', s)) =>
                SubqueryOf(s)' # SubqueryOf(s)]_vars

\* query 2 was given to foundIn of query 1, then narrowed to title by
\* toSubquery, and query 1 embeds it with that one column
C22_Witness ==
    /\ last.op = "toSubquery" /\ last.q = 2 /\ last.key = "title" /\ last.error = NoError
    /\ HeldAt(1, 2) # {}
    /\ included[2] = <<>>
    /\ SelectList(SubqueryOf(2)) = ColumnOf("title")
    /\ PredicatesOf(1)[1]
          = <<clientEscapeKey("Post.title", FALSE), Lit(" IN (")>>
            \o getFindClause(toQueryOptions(2)) \o <<Lit(")")>>


(***************************************************************************)
(* Properties of a key decorated with min(limit).                          *)
(***************************************************************************)
\* C23: assigning a number below the limit throws and leaves what every
\* instance holds as it was, assigning a number at or above the limit stores
\* it in the instance assigned and no other, and reading the key changes
\* nothing and returns the number the instance holds (the last one stored,
\* 0 included), which is never below the limit.
C23_MinKeepsLastAssigned ==
    /\ [][(last'.op = "set" /\ last'.value.number < minLimit) =>
            /\ last'.error # NoError
            /\ numberKey' = numberKey]_vars
    /\ [][(last'.op = "set" /\ last'.value.number >= minLimit) =>
            /\ last'.error = NoError
            /\ numberKey' = [numberKey EXCEPT ![last'.instance] = last'.value]]_vars
    /\ [][last'.op = "get" =>
            /\ last'.error = NoError
            /\ numberKey' = numberKey
            /\ last'.result = numberKey[last'.instance]]_vars
    /\ [](\A c \in Instances :
             IsNumber(numberKey[c]) => numberKey[c].number >= minLimit)
    /\ [](last.op = "get" /\ IsNumber(last.result) => last.result.number >= minLimit)

=============================================================================
